---- MODULE Spec2Model ----
(***************************************************************************)
(* Railway operations application: the schedules table and the operations  *)
(* that write and read it.                                                  *)
(*                                                                          *)
(*   server/routes.ts      POST /api/schedules, POST /api/schedules/import  *)
(*   server/routes.ts      GET /api/schedules/export                        *)
(*   server/auth.ts        requireRole, setupWebSocket (updateSchedule)     *)
(*   migrations/0002       the CHECK constraints on attach and detach time  *)
(*   client TrainControls, hooks/useSocket.ts   the buttons and the cache   *)
(*   db/schema.ts          trains, locations, schedules (foreign keys)      *)
(*   client ScheduleForm          the form's checks and the body it posts   *)
(*   client ImportSchedules.tsx   handleFileUpload                          *)
(*   client TimelineView.tsx      the calendar's per-schedule filter        *)
(*   server/routes.ts      POST /api/admin/clean-tables                     *)
(*   server/routes.ts      POST /api/trains/import-types                    *)
(*   server/auth.ts        POST /api/register                               *)
(*   db/index.ts           createDbConnection, initializeDb                 *)
(*                                                                          *)
(* Encoding.  Timestamps are integer ticks, DayTicks ticks to a calendar    *)
(* day, tick 0 being 1970-01-01T00:00 local time.  A numeric id is a        *)
(* positive integer.  attachTrainNumber is a text column; a train number is *)
(* encoded by a positive integer and the empty string by 0, so that the     *)
(* JavaScript truthiness tests of the handlers read the same on every       *)
(* optional field.  In a request body null and undefined are NULL; in an    *)
(* updateSchedule event a key that is not carried is UNDEFINED.             *)
(***************************************************************************)
EXTENDS Integers, Sequences, FiniteSets, TLC

VARIABLES
    trains,       \* rows of table trains: [id, type]
    locations,    \* ids of the rows of table locations
    schedules,    \* rows of table schedules
    nextId,       \* next value of the identity column schedules.id
    req,          \* the request being answered: [op, role, body]
    response,     \* its answer: [status, error, issues, inserted]
    currentDate,  \* TimelineView: the instant of the last render, NULL before it
    events,       \* TimelineView: the calendar events of the last render
    timeChecks,   \* whether the CHECK constraints of migration 0002 are installed
    inbox,        \* socket.io: the updateSchedule event on its way to the server
    outbox,       \* socket.io: the scheduleUpdated broadcast on its way to the client
    cache,        \* client: the React Query cache under the key ['schedules']
    log,          \* server console: what the last updateSchedule handler logged
    users,        \* rows of table users: [id, username, role]
    nextUserId,   \* next value of the identity column users.id
    registering,  \* /api/register: the request of each client, [phase, requester, body, role, status]
    nextTrainId,  \* next value of the identity column trains.id
    today,        \* the UTC calendar day of the server's clock
    connection,   \* initializeDb: "pending", "waiting", "open", "seeded" or "error"
    call,         \* createDbConnection: the parameters [retries, delay] of the running call
    attempts,     \* createDbConnection: the connection attempts made so far
    waits,        \* createDbConnection: the delays waited so far, in order
    caches,       \* two dashboards: the React Query cache of each
    channels,     \* two dashboards: the scheduleUpdated broadcasts on their way to each
    handlers      \* the updateSchedule handler of each dashboard's event: [phase, data, updated]

\* the variables of the WebSocket path
socketVars == <<timeChecks, inbox, outbox, cache, log>>

\* the users table and the registrations under way
userVars == <<users, nextUserId, registering>>

\* the train import
trainVars == <<nextTrainId, today>>

\* the start-up of the database connection
connVars == <<connection, call, attempts, waits>>

\* two dashboards on one server
clientVars == <<caches, channels, handlers>>

restVars == <<userVars, trainVars, connVars, clientVars>>

vars == <<trains, locations, schedules, nextId, req, response, currentDate, events,
          socketVars, restVars>>

(***************************************************************************)
(* Bounds of the model.                                                     *)
(***************************************************************************)
MaxSchedules == 1   \* schedule ids the identity column hands out
MaxImport == 1      \* entries of one bulk import
MaxTime == 4        \* last tick of a scheduled/attach/detach time
MaxDay == 6         \* last calendar day on which the calendar is rendered
DayTicks == 2       \* ticks per calendar day
MaxTables == 2      \* table names in the body of one clean-tables call
MaxUsers == 2       \* user ids the identity column hands out after the seeded one
MaxTrains == 4      \* train ids the identity column hands out
MaxEntries == 2     \* entries of one import of train types
MaxDate == 1        \* last calendar day of the server's clock
MaxPending == 2     \* events and broadcasts under way towards one dashboard

NULL == -1

\* JavaScript truthiness of an optional number, string or Date field:
\* null, undefined, 0 and "" are falsy; every Date object is truthy.
Truthy(v) == v # NULL /\ v # 0

TrainTypes == {"express", "local", "freight", "spic", "ftr", "saloon", "trc",
               "passenger", "mail_express", "superfast", "premium", "suburban",
               "memu", "demu"}

AllDays == <<TRUE, TRUE, TRUE, TRUE, TRUE, TRUE, TRUE>>

(***************************************************************************)
(* Table lookups.                                                           *)
(***************************************************************************)
\* db.select().from(trains).where(eq(trains.id, id)).limit(1): the rows found
trainRows(tbl, id) == {t \in tbl : t.id = id}

\* db.select().from(locations).where(eq(locations.id, id)).limit(1) finds a row
locationExists(tbl, id) == id \in tbl

\* a table without foreign keys: every reference is accepted
foreignKeysUnchecked(row, trs, locs) == TRUE

\* The foreign keys of table schedules: a non-null reference names a row.
foreignKeysHold(row, trs, locs) ==
    /\ row.trainId # NULL => trainRows(trs, row.trainId) # {}
    /\ \A ref \in {row.departureLocationId, row.arrivalLocationId,
                   row.detachLocationId, row.attachLocationId} :
          ref # NULL => locationExists(locs, ref)

(***************************************************************************)
(* POST /api/schedules: scheduleSchema and its two refinements.             *)
(***************************************************************************)
\* .refine on detachTime: a Date is always truthy, so the test applies
\* whenever detachTime is given.
detachTimeInRange(data) ==
    data.detachTime # NULL =>
        /\ data.detachTime >= data.scheduledDeparture
        /\ data.detachTime <= data.scheduledArrival

\* the bounds taken as exclusive
attachTimeStrictlyInside(data) ==
    data.attachTime # NULL =>
        /\ data.attachTime > data.scheduledDeparture
        /\ data.attachTime < data.scheduledArrival

\* .refine on attachTime
attachTimeInRange(data) ==
    data.attachTime # NULL =>
        /\ data.attachTime >= data.scheduledDeparture
        /\ data.attachTime <= data.scheduledArrival

\* scheduleSchema.safeParse: the paths of the issues found.  Both refinements
\* run; neither stops the other.
safeParse(data) ==
    {p \in {"trainId", "departureLocationId", "arrivalLocationId",
            "runningDays", "status", "detachTime", "attachTime"} :
        \/ p = "trainId" /\ data.trainId < 1
        \/ p = "departureLocationId" /\ data.departureLocationId < 1
        \/ p = "arrivalLocationId" /\ data.arrivalLocationId < 1
        \/ p = "runningDays" /\ Len(data.runningDays) # 7
        \/ p = "status" /\ data.status \notin {"scheduled", "delayed", "completed", "cancelled"}
        \/ p = "detachTime" /\ ~detachTimeInRange(data)
        \/ p = "attachTime" /\ ~attachTimeInRange(data)}

isSpecialTrain(train) == train.type = "saloon" \/ train.type = "ftr"

\* some attach field is given (line 381)
attachRequested(data) ==
    Truthy(data.attachLocationId) \/ Truthy(data.attachTrainNumber) \/ data.attachTime # NULL

\* the two cases the schedule form tests before posting, in place of line 382
attachIncompleteAsInForm(data) ==
    \/ data.attachTime # NULL /\ Truthy(data.attachLocationId) /\ ~Truthy(data.attachTrainNumber)
    \/ Truthy(data.attachTrainNumber) /\ ~Truthy(data.attachLocationId)

\* ... and not all three are (line 382)
attachIncomplete(data) ==
    ~Truthy(data.attachLocationId) \/ ~Truthy(data.attachTrainNumber) \/ data.attachTime = NULL

\* some detach field is given (line 404)
detachRequested(data) == Truthy(data.detachLocationId) \/ data.detachTime # NULL

\* && in place of ||
detachBothMissing(data) == ~Truthy(data.detachLocationId) /\ data.detachTime = NULL

\* ... and not both are (line 405)
detachIncomplete(data) == ~Truthy(data.detachLocationId) \/ data.detachTime = NULL

\* the test of the else branch, for a train that is neither saloon nor ftr
otherTrainHasOperations(data) ==
    Truthy(data.attachLocationId) \/ Truthy(data.detachLocationId) \/ Truthy(data.attachTrainNumber)

\* scheduleData and the column defaults: the row the insert writes.  The text
\* column attachStatus holds 'pending' or null, written "null" here.
scheduleData(data, id) ==
    [id |-> id,
     trainId |-> data.trainId,
     departureLocationId |-> data.departureLocationId,
     arrivalLocationId |-> data.arrivalLocationId,
     scheduledDeparture |-> data.scheduledDeparture,
     scheduledArrival |-> data.scheduledArrival,
     actualDeparture |-> NULL,
     actualArrival |-> NULL,
     status |-> data.status,
     isCancelled |-> data.isCancelled,
     runningDays |-> data.runningDays,
     effectiveStartDate |-> data.effectiveStartDate,
     effectiveEndDate |-> data.effectiveEndDate,
     detachLocationId |-> data.detachLocationId,
     attachLocationId |-> data.attachLocationId,
     detachTime |-> data.detachTime,
     attachTime |-> data.attachTime,
     attachTrainNumber |-> data.attachTrainNumber,
     attachStatus |-> IF Truthy(data.attachTrainNumber) THEN "pending" ELSE "null"]

\* An answer as the caller and the table see it: the HTTP status (0: no
\* request was sent), the error text, the paths of the validation issues, the
\* rows the handler left in the table, and for an import the ids it reports
\* under results.success and the indexes it reports under results.failures.
Answer(status, error, issues, inserted) ==
    [status |-> status, error |-> error, issues |-> issues, inserted |-> inserted,
     success |-> {r.id : r \in inserted}, failures |-> {}]

\* The handler of POST /api/schedules on body `data`: its answer, `inserted`
\* holding the row it wrote, if any.
createSchedule(data, trs, locs, id) ==
    LET issues == safeParse(data)
        found == trainRows(trs, data.trainId)
        train == CHOOSE t \in found : TRUE
        row == scheduleData(data, id)
    IN  IF issues # {}
        THEN Answer(400, "Invalid schedule data", issues, {})
        ELSE IF found = {}
        THEN Answer(404, "Train not found", {}, {})
        ELSE IF isSpecialTrain(train) /\ attachRequested(data) /\ attachIncomplete(data)
        THEN Answer(400, "Invalid attach configuration", {}, {})
        ELSE IF isSpecialTrain(train) /\ attachRequested(data)
                /\ ~locationExists(locs, data.attachLocationId)
        THEN Answer(404, "Invalid attach location", {}, {})
        ELSE IF isSpecialTrain(train) /\ detachRequested(data) /\ detachIncomplete(data)
        THEN Answer(400, "Invalid detach configuration", {}, {})
        ELSE IF isSpecialTrain(train) /\ detachRequested(data)
                /\ ~locationExists(locs, data.detachLocationId)
        THEN Answer(404, "Invalid detach location", {}, {})
        ELSE IF ~isSpecialTrain(train) /\ otherTrainHasOperations(data)
        THEN Answer(400, "Invalid train type for attach/detach operations", {}, {})
        ELSE IF ~foreignKeysHold(row, trs, locs)
        THEN Answer(500, "Failed to create schedule", {}, {})
        ELSE Answer(200, "", {}, {row})

(***************************************************************************)
(* requireRole (server/auth.ts).                                            *)
(***************************************************************************)
Roles == {"anonymous", "viewer", "operator", "admin"}

isAuthenticated(role) == role # "anonymous"

\* the middleware without its role test: every session passes
requireRoleAnySession(allowed, role) ==
    IF ~isAuthenticated(role) THEN 401 ELSE 0

\* 0 when the middleware calls next(), else the status it answers with
requireRole(allowed, role) ==
    IF ~isAuthenticated(role) THEN 401
    ELSE IF role \notin allowed THEN 403
    ELSE 0

(***************************************************************************)
(* POST /api/schedules/import.                                              *)
(***************************************************************************)
\* the import's scheduleSchema, one entry: the paths of its issues
importParse(data) ==
    {p \in {"trainId", "departureLocationId", "arrivalLocationId",
            "runningDays", "status", "detachTime", "attachTime"} :
        \/ p = "trainId" /\ data.trainId < 1
        \/ p = "departureLocationId" /\ data.departureLocationId < 1
        \/ p = "arrivalLocationId" /\ data.arrivalLocationId < 1
        \/ p = "runningDays" /\ Len(data.runningDays) # 7
        \/ p = "status" /\ data.status \notin {"scheduled", "running", "delayed", "completed", "cancelled"}
        \/ p = "detachTime" /\ ~detachTimeInRange(data)
        \/ p = "attachTime" /\ ~attachTimeInRange(data)}

\* scheduleToInsert: the import's schema has no attachTrainNumber and no
\* attachStatus key, so the parsed entry has none and the columns take their
\* defaults (null, 'pending').
scheduleToInsert(data, id) ==
    [scheduleData(data, id) EXCEPT !.attachTrainNumber = NULL, !.attachStatus = "pending"]

\* The loop of the transaction from entry i on.  st = [rows, success, failures,
\* aborted, id]: the rows inserted so far, the ids pushed to results.success,
\* the indexes pushed to results.failures, whether a statement has failed in
\* the transaction, and the next identity value.  Once a statement has failed
\* PostgreSQL refuses every later statement of the transaction; the handler
\* catches each error and goes on.
RECURSIVE importLoop(_, _, _, _, _)
importLoop(arr, i, trs, locs, st) ==
    IF i > Len(arr) THEN st
    ELSE LET data == arr[i]
             row == scheduleToInsert(data, st.id)
             failed == [st EXCEPT !.failures = @ \cup {i}]
         IN  IF st.aborted
             THEN importLoop(arr, i + 1, trs, locs, failed)
             ELSE IF trainRows(trs, data.trainId) = {}
             THEN importLoop(arr, i + 1, trs, locs, failed)
             ELSE IF ~locationExists(locs, data.departureLocationId)
                     \/ ~locationExists(locs, data.arrivalLocationId)
             THEN importLoop(arr, i + 1, trs, locs, failed)
             ELSE IF ~foreignKeysHold(row, trs, locs)
             THEN importLoop(arr, i + 1, trs, locs, [failed EXCEPT !.aborted = TRUE])
             ELSE importLoop(arr, i + 1, trs, locs,
                             [st EXCEPT !.rows = @ \cup {row}, !.success = @ \cup {st.id},
                                        !.id = @ + 1])

\* The handler behind requireRole(admin).  The transaction's callback never
\* throws, so the driver commits; committing a transaction in which a
\* statement failed rolls it back.
importSchedules(role, arr, trs, locs, id) ==
    LET denied == requireRole({"admin"}, role)
        issues == UNION {importParse(arr[i]) : i \in 1..Len(arr)}
        st == importLoop(arr, 1, trs, locs,
                         [rows |-> {}, success |-> {}, failures |-> {},
                          aborted |-> FALSE, id |-> id])
    IN  IF denied = 401 THEN Answer(401, "Not authenticated", {}, {})
        ELSE IF denied = 403 THEN Answer(403, "Insufficient permissions", {}, {})
        ELSE IF issues # {} THEN Answer(400, "Invalid schedule data", issues, {})
        ELSE [status |-> 200, error |-> "", issues |-> {},
              inserted |-> IF st.aborted THEN {} ELSE st.rows,
              success |-> st.success, failures |-> st.failures]

(***************************************************************************)
(* GET /api/schedules/export.                                               *)
(***************************************************************************)
\* The handler behind requireRole(admin): it reads the schedules joined to
\* their train and their two locations and writes nothing.  `success` holds
\* the ids of the rows it sends as data.
exportSchedules(role, rows, trs, locs) ==
    LET denied == requireRole({"admin"}, role)
        exportData == {r \in rows : /\ trainRows(trs, r.trainId) # {}
                                    /\ locationExists(locs, r.departureLocationId)
                                    /\ locationExists(locs, r.arrivalLocationId)}
    IN  IF denied = 401 THEN Answer(401, "Not authenticated", {}, {})
        ELSE IF denied = 403 THEN Answer(403, "Insufficient permissions", {}, {})
        ELSE [status |-> 200, error |-> "", issues |-> {}, inserted |-> {},
              success |-> {r.id : r \in exportData}, failures |-> {}]

(***************************************************************************)
(* Client, ImportSchedules.tsx: handleFileUpload.                           *)
(***************************************************************************)
\* scheduleImportSchema, one entry: the paths of its issues
uploadParse(data) ==
    {p \in {"trainId", "departureLocationId", "arrivalLocationId", "runningDays", "status"} :
        \/ p = "trainId" /\ data.trainId <= 0
        \/ p = "departureLocationId" /\ data.departureLocationId <= 0
        \/ p = "arrivalLocationId" /\ data.arrivalLocationId <= 0
        \/ p = "runningDays" /\ Len(data.runningDays) # 7
        \/ p = "status" /\ data.status \notin {"scheduled", "delayed", "completed", "cancelled"}}

\* the parsed entry: z.object drops the keys the schema does not name
uploadData(data) ==
    [data EXCEPT !.detachLocationId = NULL, !.attachLocationId = NULL,
                 !.detachTime = NULL, !.attachTime = NULL, !.attachTrainNumber = NULL]

arrivalNotAfterDeparture(data) == data.scheduledArrival <= data.scheduledDeparture

endNotAfterStart(data) ==
    data.effectiveEndDate # NULL /\ data.effectiveEndDate <= data.effectiveStartDate

\* The file is checked in the browser; only a file that passes is posted to
\* /api/schedules/import, with the session of the user.
handleFileUpload(role, file, trs, locs, id) ==
    LET entries == 1..Len(file)
        issues == UNION {uploadParse(file[i]) : i \in entries}
        answer == importSchedules(role, [i \in entries |-> uploadData(file[i])], trs, locs, id)
    IN  IF issues = {} /\ \E i \in entries : arrivalNotAfterDeparture(file[i])
        THEN Answer(0, "Arrival time must be after departure time", {}, {})
        ELSE IF issues = {} /\ \E i \in entries : endNotAfterStart(file[i])
        THEN Answer(0, "Effective end date must be after start date", {}, {})
        ELSE IF Len(file) < 1 \/ issues # {}
        THEN Answer(0, "Invalid schedule data format", issues, {})
        ELSE answer

(***************************************************************************)
(* Client, ScheduleForm: the form's schema, mutationFn and the body posted. *)
(***************************************************************************)
\* .refine of the form's scheduleSchema, on attachTime
formAttachTimeInRange(data) ==
    data.attachTime # NULL =>
        /\ data.attachTime >= data.scheduledDeparture
        /\ data.attachTime <= data.scheduledArrival

\* the error mutationFn throws for a saloon or ftr train, "" when it throws none
formAttachError(data) ==
    IF data.attachTime # NULL /\ Truthy(data.attachLocationId) /\ ~Truthy(data.attachTrainNumber)
    THEN "Attach train number is required when specifying attach location and time"
    ELSE IF Truthy(data.attachTrainNumber) /\ ~Truthy(data.attachLocationId)
    THEN "Attach location is required when specifying attach train number"
    ELSE ""

\* value || null
orNull(v) == IF Truthy(v) THEN v ELSE NULL

\* the JSON body: the attach fields only for a saloon or ftr train
formBody(data, special) ==
    IF special
    THEN [data EXCEPT !.attachLocationId = orNull(@), !.attachTrainNumber = orNull(@)]
    ELSE [data EXCEPT !.attachLocationId = NULL, !.attachTrainNumber = NULL,
                      !.attachTime = NULL]

\* onSubmit: the resolver, then mutationFn, then POST /api/schedules.  The
\* selected train is the row of the trains list with the form's trainId.
submitSchedule(data, trs, locs, id) ==
    LET special == \E t \in trainRows(trs, data.trainId) : isSpecialTrain(t)
    IN  IF ~formAttachTimeInRange(data)
        THEN Answer(0, "Attach time must be between departure and arrival times",
                    {"attachTime"}, {})
        ELSE IF special /\ formAttachError(data) # ""
        THEN Answer(0, formAttachError(data), {}, {})
        ELSE createSchedule(formBody(data, special), trs, locs, id)

(***************************************************************************)
(* Client, TimelineView.tsx: the events handed to the calendar.             *)
(***************************************************************************)
\* Date.prototype.getDay of the instant `now`: 0 = Sunday ... 6 = Saturday.
\* Day 0 of the tick count, 1970-01-01, is a Thursday.
getDay(now) == ((now \div DayTicks) + 4) % 7

\* the platform's index used as it comes, Sunday = 0
currentDayOfWeekSundayFirst(now) == getDay(now)

\* currentDayOfWeek: 0 = Monday ... 6 = Sunday
currentDayOfWeek(now) == (getDay(now) + 6) % 7

\* the test with cancelled schedules left out of the calendar
notEffectiveOrCancelled(schedule, now) ==
    \/ schedule.effectiveStartDate > now
    \/ schedule.effectiveEndDate # NULL /\ schedule.effectiveEndDate < now
    \/ ~schedule.runningDays[currentDayOfWeek(now) + 1]
    \/ schedule.isCancelled

\* the test with the end of the window compared the wrong way round
notEffectiveEndReversed(schedule, now) ==
    \/ schedule.effectiveStartDate > now
    \/ schedule.effectiveEndDate # NULL /\ schedule.effectiveEndDate > now
    \/ ~schedule.runningDays[currentDayOfWeek(now) + 1]

\* the test under which flatMap emits nothing for the schedule; runningDays is
\* indexed from 0 in the source and from 1 here
notEffective(schedule, now) ==
    \/ schedule.effectiveStartDate > now
    \/ schedule.effectiveEndDate # NULL /\ schedule.effectiveEndDate < now
    \/ ~schedule.runningDays[currentDayOfWeek(now) + 1]

\* the event emitted for a schedule
calendarEvent(schedule) ==
    [id |-> schedule.id,
     start |-> schedule.scheduledDeparture,
     end |-> schedule.scheduledArrival,
     status |-> schedule.status,
     isCancelled |-> schedule.isCancelled,
     runningDays |-> schedule.runningDays]

\* backgroundColor of an event
eventStyleGetter(event) ==
    IF event.status = "cancelled" \/ event.isCancelled THEN "#ef4444"
    ELSE IF event.status = "delayed" THEN "#f59e0b"
    ELSE "#22c55e"

\* events: one per schedule that passes the test, read at the instant `now`
TimelineView(rows, now) ==
    {calendarEvent(schedule) : schedule \in {r \in rows : ~notEffective(r, now)}}

(***************************************************************************)
(* WebSocket, server/auth.ts setupWebSocket: the updateSchedule handler.    *)
(***************************************************************************)
\* A key the event does not carry (undefined), as opposed to one it carries
\* with the value null.  For the text attachStatus it is written "undefined".
UNDEFINED == -2

Statuses == {"scheduled", "running", "delayed", "completed", "cancelled"}

\* truthiness of an optional ISO date string of the event: every date string
\* is truthy, null and undefined are not
given(v) == v # NULL /\ v # UNDEFINED

\* data.x ? new Date(data.x) : null
dateOrNull(v) == IF given(v) THEN v ELSE NULL

\* a column handed to set() as it comes: the query builder leaves out a key
\* whose value is undefined, so the column keeps its value
setOrKeep(old, v) == IF v = UNDEFINED THEN old ELSE v

\* the row that set({...}) makes of a stored row
updateSet(row, data) ==
    [row EXCEPT !.status = data.status,
                !.actualDeparture = dateOrNull(data.actualDeparture),
                !.actualArrival = dateOrNull(data.actualArrival),
                !.attachTrainNumber = setOrKeep(@, data.attachTrainNumber),
                !.attachTime = dateOrNull(data.attachTime),
                !.attachStatus = IF data.attachStatus = "undefined" THEN @ ELSE data.attachStatus,
                !.detachLocationId = setOrKeep(@, data.detachLocationId),
                !.detachTime = dateOrNull(data.detachTime)]

\* check_attach_time_range and check_detach_time_range
timeChecksHold(row) ==
    /\ row.attachTime = NULL
          \/ (row.attachTime >= row.scheduledDeparture /\ row.attachTime <= row.scheduledArrival)
    /\ row.detachTime = NULL
          \/ (row.detachTime >= row.scheduledDeparture /\ row.detachTime <= row.scheduledArrival)

\* the handler broadcasting the row it means to write before the statement
\* has been run, so also when the statement then fails
updateScheduleEmitFirst(data, rows, trs, locs, checks, up) ==
    LET matched == {r \in rows : r.id = data.id}
        updated == {updateSet(r, data) : r \in matched}
        throws == \/ ~up
                  \/ \E w \in updated : \/ ~foreignKeysHold(w, trs, locs)
                                        \/ checks /\ ~timeChecksHold(w)
    IN  [rows |-> IF throws THEN rows ELSE (rows \ matched) \cup updated,
         emitted |-> IF updated = {} THEN <<>> ELSE <<CHOOSE w \in updated : TRUE>>,
         log |-> IF throws THEN "Error updating schedule:" ELSE ""]

\* The handler on event `data`.  `checks` tells whether the CHECK constraints
\* are installed and `up` whether the database answers.  The statement fails
\* when the database does not answer or a written row breaks a foreign key
\* or an installed constraint; the handler catches the error and logs it.
\* Otherwise the rows with the event's id are rewritten and the first of them
\* is broadcast as scheduleUpdated.  Nothing is sent back to the sender.
updateSchedule(data, rows, trs, locs, checks, up) ==
    LET matched == {r \in rows : r.id = data.id}
        updated == {updateSet(r, data) : r \in matched}
        throws == \/ ~up
                  \/ \E w \in updated : \/ ~foreignKeysHold(w, trs, locs)
                                        \/ checks /\ ~timeChecksHold(w)
    IN  IF throws
        THEN [rows |-> rows, emitted |-> <<>>, log |-> "Error updating schedule:"]
        ELSE [rows |-> (rows \ matched) \cup updated,
              emitted |-> IF updated = {} THEN <<>> ELSE <<CHOOSE w \in updated : TRUE>>,
              log |-> ""]

(***************************************************************************)
(* Client: TrainControls (ExportButton.tsx) and hooks/useSocket.ts.         *)
(***************************************************************************)
\* what the train controls read of a schedule in the cache and what an
\* update event can change of it
cached(row) ==
    [id |-> row.id, status |-> row.status, isCancelled |-> row.isCancelled,
     actualDeparture |-> row.actualDeparture, actualArrival |-> row.actualArrival]

\* fetchSchedules: GET /api/schedules without a date filter
fetchSchedules(rows) == {cached(r) : r \in rows}

\* the schedules in the cache that find() may return as selectedSchedule: the
\* rows come in the order of a SELECT without ORDER BY
selectable(c) == {s \in c : ~s.isCancelled /\ s.status # "completed"}

\* an event that carries nothing but id and status
statusEvent(id, status) ==
    [id |-> id, status |-> status,
     actualDeparture |-> UNDEFINED, actualArrival |-> UNDEFINED,
     attachTrainNumber |-> UNDEFINED, attachTime |-> UNDEFINED, attachStatus |-> "undefined",
     detachLocationId |-> UNDEFINED, detachTime |-> UNDEFINED]

Buttons == {"Start", "Delay", "Complete"}

\* the status a button asks for
buttonStatus(button) ==
    CASE button = "Start" -> "running"
      [] button = "Delay" -> "delayed"
      [] button = "Complete" -> "completed"

\* disabled, for a connected client with no update under way
buttonDisabled(button, selected) == selected.status = buttonStatus(button)

\* the event handleUpdateSchedule hands to updateSchedule when the button is
\* clicked at the instant `now`
buttonEvent(button, selected, now) ==
    CASE button = "Start" ->
            [statusEvent(selected.id, "running") EXCEPT !.actualDeparture = now]
      [] button = "Delay" -> statusEvent(selected.id, "delayed")
      [] button = "Complete" ->
            [statusEvent(selected.id, "completed") EXCEPT !.actualArrival = now]

\* the optimistic update: { ...schedule, ...data } on the schedule with the
\* event's id, a key the event does not carry leaving the cached value
optimisticUpdate(c, data) ==
    {IF s.id = data.id
        THEN [s EXCEPT !.status = data.status,
                       !.actualDeparture = setOrKeep(@, data.actualDeparture),
                       !.actualArrival = setOrKeep(@, data.actualArrival)]
        ELSE s : s \in c}

\* the listener of scheduleUpdated on a loaded cache
scheduleUpdated(c, updatedSchedule) ==
    {IF s.id = updatedSchedule.id THEN cached(updatedSchedule) ELSE s : s \in c}

(***************************************************************************)
(* POST /api/admin/clean-tables.                                            *)
(***************************************************************************)
Tables == {"schedules", "trains", "locations", "users"}

\* tableSchema.parse throws on a body whose `tables` is empty or names
\* something else than the four tables
tableSchemaParses(body) ==
    /\ Len(body.tables) >= 1
    /\ \A i \in 1..Len(body.tables) : body.tables[i] \in Tables

\* .default(true): the value of a key the body leaves out
preserveAdmin(body) ==
    IF "preserveAdmin" \in DOMAIN body THEN body.preserveAdmin ELSE TRUE

preserveReferences(body) ==
    IF "preserveReferences" \in DOMAIN body THEN body.preserveReferences ELSE TRUE

\* the tables in the order the body lists them
listedOrder(tables) == tables

\* [...tables].sort(...): 'schedules' sorts before every other name and the
\* other names compare equal, so the stable sort keeps their order
sortedTables(tables) ==
    SelectSeq(tables, LAMBDA t : t = "schedules")
        \o SelectSeq(tables, LAMBDA t : t # "schedules")

\* trains inner join schedules on schedules.trainId = trains.id
trainsInUse(rows, trs) == {t.id : t \in {t \in trs : \E s \in rows : s.trainId = t.id}}

\* locations inner join schedules on the departure or the arrival location
locationsInUse(rows, locs) ==
    {l \in locs : \E s \in rows : s.departureLocationId = l \/ s.arrivalLocationId = l}

\* case 'users' with every row deleted whatever preserveAdmin says
deleteUsersAll(usrs, keepAdmin) == {}

\* case 'users': the rows the delete leaves
deleteUsers(usrs, keepAdmin) ==
    IF keepAdmin THEN {u \in usrs : ~(u.role # "admin")} ELSE {}

\* One case of the switch on the state `st` of the transaction; `error` is
\* the message of what was thrown.  A delete that would leave a schedule
\* with a dangling reference is refused by the foreign keys of schedules.
cleanTable(table, body, st) ==
    IF table = "schedules" THEN [st EXCEPT !.rows = {}]
    ELSE IF table = "trains"
    THEN IF preserveReferences(body) /\ trainsInUse(st.rows, st.trs) # {}
         THEN [st EXCEPT !.error = "Cannot clean trains table while preserving references"]
         ELSE IF \E s \in st.rows : ~foreignKeysHold(s, {}, st.locs)
         THEN [st EXCEPT !.error = "violates foreign key constraint"]
         ELSE [st EXCEPT !.trs = {}]
    ELSE IF table = "locations"
    THEN IF preserveReferences(body) /\ locationsInUse(st.rows, st.locs) # {}
         THEN [st EXCEPT !.error = "Cannot clean locations table while preserving references"]
         ELSE IF \E s \in st.rows : ~foreignKeysHold(s, st.trs, {})
         THEN [st EXCEPT !.error = "violates foreign key constraint"]
         ELSE [st EXCEPT !.locs = {}]
    ELSE [st EXCEPT !.usrs = deleteUsers(st.usrs, preserveAdmin(body))]

\* for (const table of sortedTables): the loop stops at the first throw
RECURSIVE cleanLoop(_, _, _, _)
cleanLoop(tabs, i, body, st) ==
    IF i > Len(tabs) \/ st.error # "" THEN st
    ELSE cleanLoop(tabs, i + 1, body, cleanTable(tabs[i], body, st))

\* The handler behind requireRole(admin): its answer (`issues` holding the
\* `details` of a failure) and the four tables as it leaves them.  A throw
\* inside db.transaction rolls every delete back.
cleanTables(role, body, rows, trs, locs, usrs) ==
    LET denied == requireRole({"admin"}, role)
        before == [rows |-> rows, trs |-> trs, locs |-> locs, usrs |-> usrs, error |-> ""]
        st == cleanLoop(sortedTables(body.tables), 1, body, before)
        left(answer, tbl) == [answer |-> answer, rows |-> tbl.rows, trs |-> tbl.trs,
                              locs |-> tbl.locs, usrs |-> tbl.usrs]
    IN  IF denied = 401 THEN left(Answer(401, "Not authenticated", {}, {}), before)
        ELSE IF denied = 403 THEN left(Answer(403, "Insufficient permissions", {}, {}), before)
        ELSE IF ~tableSchemaParses(body)
        THEN left(Answer(500, "Failed to clean tables", {"invalid body"}, {}), before)
        ELSE IF st.error # ""
        THEN left(Answer(500, "Failed to clean tables", {st.error}, {}), before)
        ELSE left(Answer(200, "", {}, {}), st)

(***************************************************************************)
(* POST /api/register (server/auth.ts).                                     *)
(***************************************************************************)
\* the two browsers that talk to the server at the same time
Clients == {1, 2}

\* no event of the client is being handled
NoHandler == [phase |-> "none", data |-> <<>>, updated |-> <<>>]

\* a client without a registration under way
Idle == [phase |-> "idle", requester |-> "anonymous", body |-> <<>>, role |-> "", status |-> 0]

\* insertUserSchema.safeParse: username is required, role is optional
insertUserSchemaParses(body) == "username" \in DOMAIN body

\* the role given to whoever asks for one
registerRoleAsAsked(requester, body) ==
    IF "role" \in DOMAIN body /\ body.role # "" THEN body.role ELSE "viewer"

\* const role = req.user?.role === UserRole.Admin && result.data.role ? ... :
\* UserRole.Viewer (the empty string is falsy)
registerRole(requester, body) ==
    IF requester = "admin" /\ "role" \in DOMAIN body /\ body.role # ""
    THEN body.role
    ELSE "viewer"

\* The handler up to its existence check: the request as it stands after the
\* select, answered (phase "done") or about to insert (phase "checked").
registerLookup(requester, body, usrs) ==
    LET role == registerRole(requester, body)
        asked == [phase |-> "done", requester |-> requester, body |-> body,
                  role |-> "", status |-> 0]
    IN  IF ~insertUserSchemaParses(body) THEN [asked EXCEPT !.status = 400]
        ELSE IF role = "admin" /\ requester # "admin"
        THEN [asked EXCEPT !.role = role, !.status = 403]
        ELSE IF \E u \in usrs : u.username = body.username
        THEN [asked EXCEPT !.role = role, !.status = 400]
        ELSE [asked EXCEPT !.role = role, !.phase = "checked"]

\* the insert into a table whose username column is not unique
registerInsertUnconstrained(r, usrs, id) ==
    [usrs |-> usrs \cup {[id |-> id, username |-> r.body.username, role |-> r.role]},
     request |-> [r EXCEPT !.phase = "done", !.status = 200]]

\* The insert and what follows: the unique constraint on username refuses a
\* second row of that name, the error goes to next(error) and the client
\* gets 500; the identity column has handed its value out either way.
registerInsert(r, usrs, id) ==
    IF \E u \in usrs : u.username = r.body.username
    THEN [usrs |-> usrs, request |-> [r EXCEPT !.phase = "done", !.status = 500]]
    ELSE [usrs |-> usrs \cup {[id |-> id, username |-> r.body.username, role |-> r.role]},
          request |-> [r EXCEPT !.phase = "done", !.status = 200]]

(***************************************************************************)
(* createDbConnection and initializeDb (db/index.ts).                       *)
(***************************************************************************)
\* createDbConnection(retries = 5, delay = 5000): the parameters of the call
\* initializeDb makes
DefaultCall == [retries |-> 5, delay |-> 5000]

\* a function that gives up at the first failed attempt
afterFailureGiveUp(c) == "error"

\* the inner catch: wait and call again while retries > 0, else throw; the
\* outer catch wraps what was thrown in another Error
afterFailure(c) == IF c.retries > 0 THEN "waiting" ELSE "error"

\* return createDbConnection(retries - 1, delay)
retryCall(c) == [retries |-> c.retries - 1, delay |-> c.delay]

\* seedInitialData: the users table after it, and the identity column
seedInitialData(usrs, id) ==
    IF \E u \in usrs : u.username = "admin"
    THEN [usrs |-> usrs, id |-> id]
    ELSE [usrs |-> usrs \cup {[id |-> id, username |-> "admin", role |-> "admin"]},
          id |-> id + 1]

(***************************************************************************)
(* POST /api/trains/import-types.  A train number is the record             *)
(* [prefix, date, sequence]: the three parts the template string puts side  *)
(* by side, the date as the number of the UTC day, the sequence as the      *)
(* number padStart writes with three digits.                                *)
(***************************************************************************)
\* type.toUpperCase(), letter by letter
upperCase(type) ==
    CASE type = "express" -> <<"E", "X", "P", "R", "E", "S", "S">>
      [] type = "local" -> <<"L", "O", "C", "A", "L">>
      [] type = "freight" -> <<"F", "R", "E", "I", "G", "H", "T">>
      [] type = "spic" -> <<"S", "P", "I", "C">>
      [] type = "ftr" -> <<"F", "T", "R">>
      [] type = "saloon" -> <<"S", "A", "L", "O", "O", "N">>
      [] type = "trc" -> <<"T", "R", "C">>
      [] type = "passenger" -> <<"P", "A", "S", "S", "E", "N", "G", "E", "R">>
      [] type = "mail_express" -> <<"M", "A", "I", "L", "_", "E", "X", "P", "R", "E", "S", "S">>
      [] type = "superfast" -> <<"S", "U", "P", "E", "R", "F", "A", "S", "T">>
      [] type = "premium" -> <<"P", "R", "E", "M", "I", "U", "M">>
      [] type = "suburban" -> <<"S", "U", "B", "U", "R", "B", "A", "N">>
      [] type = "memu" -> <<"M", "E", "M", "U">>
      [] type = "demu" -> <<"D", "E", "M", "U">>

\* .slice(0, 3)
typePrefix(type) == SubSeq(upperCase(type), 1, 3)

generateTrainNumber(type, index, day) ==
    [prefix |-> typePrefix(type), date |-> day, sequence |-> index]

maxRetries == 3

\* trainTypeSchema: the type is one of the enum, the description is not empty
trainTypeParses(entry) == entry.type \in TrainTypes /\ entry.description # ""

\* a loop that tries sequence 000 only
firstNumberOnly(type, retryCount, trs, day) ==
    IF \E t \in trs : t.trainNumber = generateTrainNumber(type, 0, day)
    THEN maxRetries
    ELSE 0

\* The do ... while loop: the value of retryCount it ends with, the first
\* index whose number no train carries, or maxRetries.
RECURSIVE retryLoop(_, _, _, _)
retryLoop(type, retryCount, trs, day) ==
    IF ~\E t \in trs : t.trainNumber = generateTrainNumber(type, retryCount, day)
    THEN retryCount
    ELSE IF retryCount + 1 < maxRetries
    THEN retryLoop(type, retryCount + 1, trs, day)
    ELSE retryCount + 1

\* for (const trainType of result.data.train_types): each entry in its own
\* try/catch, so a throw fails that entry only
RECURSIVE typesLoop(_, _, _, _)
typesLoop(arr, i, day, st) ==
    IF i > Len(arr) THEN st
    ELSE LET mappedType == arr[i].type
             retryCount == retryLoop(mappedType, 0, st.trs, day)
             newTrain == [id |-> st.id, type |-> mappedType,
                          trainNumber |-> generateTrainNumber(mappedType, retryCount, day)]
         IN  IF retryCount >= maxRetries
             THEN typesLoop(arr, i + 1, day,
                            [st EXCEPT !.failures = @ \cup {i},
                                       !.messages = @ \cup {<<i, "Failed to generate unique train number after 3 attempts">>}])
             ELSE typesLoop(arr, i + 1, day,
                            [st EXCEPT !.trs = @ \cup {newTrain}, !.success = @ \cup {st.id},
                                       !.id = @ + 1])

\* The handler behind requireRole(admin): its answer (`success` the ids under
\* successfulImports, `failures` the indexes under failedImports, `messages`
\* their errors) and the trains table as it leaves it.
importTrainTypes(role, arr, trs, id, day) ==
    LET denied == requireRole({"admin"}, role)
        st == typesLoop(arr, 1, day,
                        [trs |-> trs, id |-> id, success |-> {}, failures |-> {},
                         messages |-> {}])
        refused(status, error) ==
            [status |-> status, error |-> error, issues |-> {}, inserted |-> {},
             success |-> {}, failures |-> {}, messages |-> {}, trs |-> trs]
    IN  IF denied = 401 THEN refused(401, "Not authenticated")
        ELSE IF denied = 403 THEN refused(403, "Insufficient permissions")
        ELSE IF Len(arr) < 1 \/ \E i \in 1..Len(arr) : ~trainTypeParses(arr[i])
        THEN refused(400, "Invalid train types data")
        ELSE [status |-> 200, error |-> "", issues |-> {}, inserted |-> {},
              success |-> st.success, failures |-> st.failures, messages |-> st.messages,
              trs |-> st.trs]

(***************************************************************************)
(* Request bodies.                                                          *)
(***************************************************************************)
\* the trains and locations on file
InitTrains ==
    {[id |-> 1, type |-> "express"], [id |-> 2, type |-> "saloon"], [id |-> 3, type |-> "ftr"]}

InitLocations == {1, 2}

DefaultBody ==
    [trainId |-> 2, departureLocationId |-> 1, arrivalLocationId |-> 2,
     scheduledDeparture |-> 1, scheduledArrival |-> 3,
     status |-> "scheduled", isCancelled |-> FALSE, runningDays |-> AllDays,
     effectiveStartDate |-> 0, effectiveEndDate |-> NULL,
     detachLocationId |-> NULL, attachLocationId |-> NULL,
     detachTime |-> NULL, attachTime |-> NULL, attachTrainNumber |-> NULL]

OptTimes == {NULL} \cup (0..MaxTime)
LocationRefs == {NULL, 1, 9}      \* no reference, a location, a missing location

AttachBodies ==
    {[DefaultBody EXCEPT !.trainId = t, !.attachLocationId = l,
                         !.attachTrainNumber = n, !.attachTime = a] :
        t \in {1, 2}, l \in LocationRefs, n \in {NULL, 7}, a \in OptTimes}

DetachBodies ==
    {[DefaultBody EXCEPT !.trainId = t, !.detachLocationId = l, !.detachTime = d] :
        t \in {1, 2}, l \in LocationRefs, d \in OptTimes}

\* the ftr train: no operation, a whole attach, an attach without its train
\* number, a whole detach, a detach without its location
FtrBodies ==
    {[DefaultBody EXCEPT !.trainId = 3],
     [DefaultBody EXCEPT !.trainId = 3, !.attachLocationId = 1, !.attachTrainNumber = 7,
                         !.attachTime = 2],
     [DefaultBody EXCEPT !.trainId = 3, !.attachLocationId = 1, !.attachTime = 2],
     [DefaultBody EXCEPT !.trainId = 3, !.detachLocationId = 2, !.detachTime = 3],
     [DefaultBody EXCEPT !.trainId = 3, !.detachTime = 3]}

BothBodies ==
    {[DefaultBody EXCEPT !.attachLocationId = 1, !.attachTrainNumber = 7,
                         !.attachTime = a, !.detachLocationId = 2, !.detachTime = d] :
        a \in 0..MaxTime, d \in {0, 2}}

TimeBodies ==
    {[DefaultBody EXCEPT !.scheduledDeparture = 2, !.scheduledArrival = arr] :
        arr \in {1, 2}}

EffectiveBodies ==
    {[DefaultBody EXCEPT !.effectiveStartDate = s, !.effectiveEndDate = e] :
        s \in {0, 3}, e \in {NULL, 3, 6}}

ReferenceBodies ==
    {[DefaultBody EXCEPT !.trainId = t, !.departureLocationId = dl, !.arrivalLocationId = al] :
        t \in {2, 9}, dl \in {1, 9}, al \in {1, 2, 9}}

CreateBodies ==
    AttachBodies \cup DetachBodies \cup FtrBodies \cup BothBodies \cup TimeBodies
        \cup EffectiveBodies \cup ReferenceBodies

\* what the form can hold: a train and locations picked from the lists, no
\* detach field
FormBodies ==
    {b \in AttachBodies \cup FtrBodies \cup TimeBodies \cup EffectiveBodies :
        /\ b.attachLocationId \in {NULL} \cup InitLocations
        /\ b.detachLocationId = NULL /\ b.detachTime = NULL}

\* entries of an import: a well-formed one, arrival before departure, an empty
\* effective window, one location twice, a missing train, a missing attach
\* location, an attach on an express train, an attach time out of range
ImportEntries ==
    {DefaultBody,
     [DefaultBody EXCEPT !.scheduledDeparture = 2, !.scheduledArrival = 1],
     [DefaultBody EXCEPT !.effectiveStartDate = 3, !.effectiveEndDate = 3],
     [DefaultBody EXCEPT !.arrivalLocationId = 1],
     [DefaultBody EXCEPT !.trainId = 9],
     [DefaultBody EXCEPT !.attachLocationId = 9],
     [DefaultBody EXCEPT !.trainId = 1, !.attachLocationId = 1, !.attachTime = 2],
     [DefaultBody EXCEPT !.attachTime = 0]}

ImportFiles == UNION {[1..n -> ImportEntries] : n \in 1..MaxImport}

\* who sends which file: an administrator any of them, everyone else the
\* well-formed one (the middleware answers before the body is read)
ImportRequests ==
    {<<"admin", file>> : file \in ImportFiles}
        \cup {<<role, <<DefaultBody>> >> : role \in Roles \ {"admin"}}

\* bodies of POST /api/schedules while tables are being cleaned: every
\* combination of present and missing train, departure and arrival location,
\* and on the express and the saloon train an attach with or without its
\* train number and a detach with or without its time, at a location on
\* file and at a missing one
AdminBodies ==
    ReferenceBodies
        \cup {b \in AttachBodies : b.attachLocationId # NULL /\ b.attachTime = 2}
        \cup {b \in DetachBodies : b.detachLocationId # NULL /\ b.detachTime \in {NULL, 2}}

\* files imported meanwhile: well-formed entries, entries naming a missing
\* train, entries naming a missing attach location
AdminImports ==
    {f \in ImportFiles :
        \A i \in 1..Len(f) :
            f[i] \in {DefaultBody, [DefaultBody EXCEPT !.trainId = 9],
                      [DefaultBody EXCEPT !.attachLocationId = 9]}}

\* who imports which file
AdminImportRequests ==
    {<<"admin", file>> : file \in AdminImports}
        \cup {<<role, <<DefaultBody>> >> : role \in Roles \ {"admin"}}

\* what a body of clean-tables lists
TableLists == UNION {[1..n -> Tables] : n \in 0..MaxTables}

\* the two flags left to their defaults, both false, both true; a body
\* naming something that is no table
CleanBodies ==
    {[tables |-> t] : t \in TableLists}
        \cup {[tables |-> t, preserveAdmin |-> a, preserveReferences |-> a] :
                 t \in TableLists, a \in BOOLEAN}
        \cup {[tables |-> <<"sessions">>]}

\* who sends which body: an administrator any of them, everyone else one
\* that names the users
CleanRequests ==
    {<<"admin", body>> : body \in CleanBodies}
        \cup {<<role, [tables |-> <<"users">>]>> : role \in Roles \ {"admin"}}

\* bodies of /api/register: a taken and two new usernames, without a role
\* or asking for one, an empty role, and a body without username
RegisterBodies ==
    {[username |-> n] : n \in {"admin", "ann", "bob"}}
        \cup {[username |-> n, role |-> r] :
                 n \in {"ann", "bob"}, r \in {"admin", "operator", "viewer", ""}}
        \cup {[role |-> "admin"]}

\* entries of an import of train types: two types whose names share their
\* first two letters, an entry without description, a type outside the enum
TypeEntries ==
    {[type |-> t, description |-> "d"] : t \in {"superfast", "suburban"}}
        \cup {[type |-> "express", description |-> ""],
              [type |-> "metro", description |-> "d"]}

TypeFiles == UNION {[1..n -> TypeEntries] : n \in 0..MaxEntries}

\* users the seeded administrator has registered: an operator, a viewer and
\* a second administrator
RegisteredUsers ==
    {[id |-> 2, username |-> "ann", role |-> "operator"],
     [id |-> 3, username |-> "bob", role |-> "viewer"],
     [id |-> 4, username |-> "cat", role |-> "admin"]}

\* weekly patterns: every day, no day, Monday only, Sunday only
DayPatterns ==
    {AllDays,
     <<FALSE, FALSE, FALSE, FALSE, FALSE, FALSE, FALSE>>,
     <<TRUE, FALSE, FALSE, FALSE, FALSE, FALSE, FALSE>>,
     <<FALSE, FALSE, FALSE, FALSE, FALSE, FALSE, TRUE>>}

\* bodies that differ in what the calendar reads
TimelineBodies ==
    {[DefaultBody EXCEPT !.isCancelled = c, !.runningDays = rd,
                         !.effectiveStartDate = s, !.effectiveEndDate = e] :
        c \in BOOLEAN, rd \in DayPatterns, s \in {0, 3}, e \in {NULL, 3, 6}}

\* the instants at which the calendar is rendered
RenderTimes == 0..((MaxDay + 1) * DayTicks - 1)

\* the instants at which update events are sent
UpdateTimes == {1, MaxTime}

\* the schedules on file when the train controls are used: one of a saloon
\* train, one of an express train
SocketBodies == {DefaultBody, [DefaultBody EXCEPT !.trainId = 1]}

\* updateSchedule events as any socket.io client can send them: a bare status
\* for any schedule, a status with a departure or an arrival time, an attach
\* inside and outside the journey, a detach at a location on file and at a
\* missing one, an event for a schedule that is not on file
UpdateEvents ==
    {statusEvent(id, st) : id \in 1..MaxSchedules, st \in Statuses}
        \cup {[statusEvent(1, st) EXCEPT !.actualDeparture = t] :
                 st \in {"running", "delayed"}, t \in UpdateTimes}
        \cup {[statusEvent(1, "completed") EXCEPT !.actualArrival = t] : t \in UpdateTimes}
        \cup {[statusEvent(1, "scheduled") EXCEPT !.attachTrainNumber = 7, !.attachTime = a,
                                                  !.attachStatus = "pending"] : a \in {0, 2}}
        \cup {[statusEvent(1, "scheduled") EXCEPT !.detachLocationId = l, !.detachTime = 2] :
                 l \in {1, 9}}
        \cup {statusEvent(9, "running")}

\* the instant at which an event is sent: the time it carries is the reading
\* of the sender's clock; an event without one is sent at the last instant
sentAt(data) ==
    IF given(data.actualDeparture) THEN data.actualDeparture
    ELSE IF given(data.actualArrival) THEN data.actualArrival
    ELSE MaxTime

\* who sends which event: an operator any of them, every other connection,
\* with or without a session, the start of schedule 1
SocketRequests ==
    {<<"operator", data>> : data \in UpdateEvents}
        \cup {<<role, statusEvent(1, "running")>> : role \in Roles \ {"operator"}}

\* the users the router shows the dashboard to
ClickRoles == Roles \ {"anonymous"}

(***************************************************************************)
(* The server's state after start-up: three trains and two locations are    *)
(* on file, no schedule is.                                                 *)
(***************************************************************************)
NoRequest == [op |-> "none", role |-> "anonymous", body |-> <<>>]
NoAnswer == Answer(0, "", {}, {})

\* seedInitialData: the administrator the server creates at start-up
InitUsers == {[id |-> 1, username |-> "admin", role |-> "admin"]}

\* The rest of the state after initializeDb: the connection opened at the
\* first attempt, the seeded administrator on file, no registration under
\* way and no dashboard connected.
RestInit ==
    /\ users = InitUsers
    /\ nextUserId = 2
    /\ registering = [c \in Clients |-> Idle]
    /\ nextTrainId = 4
    /\ today = 0
    /\ connection = "seeded"
    /\ call = DefaultCall
    /\ attempts = 1
    /\ waits = <<>>
    /\ caches = [c \in Clients |-> {}]
    /\ channels = [c \in Clients |-> <<>>]
    /\ handlers = [c \in Clients |-> NoHandler]

\* The table is created from db/schema.ts, which declares no CHECK constraint;
\* the handlers of this specification write attach and detach times only
\* after their own range test, so the constraints would never refuse a row.
Init ==
    /\ trains = InitTrains
    /\ locations = InitLocations
    /\ schedules = {}
    /\ nextId = 1
    /\ req = NoRequest
    /\ response = NoAnswer
    /\ currentDate = NULL
    /\ events = {}
    /\ timeChecks = FALSE
    /\ inbox = <<>>
    /\ outbox = <<>>
    /\ cache = {}
    /\ log = ""
    /\ RestInit

\* The server answers one request at a time: a handler runs from the arrival
\* of its request to the sending of its answer.
\* POST /api/schedules (no middleware: any client may call it)
PostSchedule(role, data) ==
    LET answer == createSchedule(data, trains, locations, nextId)
    IN  /\ req = NoRequest
        /\ nextId + Cardinality(answer.success) <= MaxSchedules + 1
        /\ req' = [op |-> "create", role |-> role, body |-> <<data>>]
        /\ response' = answer
        /\ schedules' = schedules \cup answer.inserted
        /\ nextId' = IF answer.inserted # {} THEN nextId + 1 ELSE nextId
        /\ UNCHANGED <<trains, locations, currentDate, events, socketVars, restVars>>

\* the schedule form of the client is submitted
SubmitForm(role, data) ==
    LET answer == submitSchedule(data, trains, locations, nextId)
    IN  /\ req = NoRequest
        /\ nextId + Cardinality(answer.success) <= MaxSchedules + 1
        /\ req' = [op |-> "form", role |-> role, body |-> <<data>>]
        /\ response' = answer
        /\ schedules' = schedules \cup answer.inserted
        /\ nextId' = IF answer.inserted # {} THEN nextId + 1 ELSE nextId
        /\ UNCHANGED <<trains, locations, currentDate, events, socketVars, restVars>>

\* POST /api/schedules/import
PostImport(role, arr) ==
    LET answer == importSchedules(role, arr, trains, locations, nextId)
    IN  /\ req = NoRequest
        /\ nextId + Cardinality(answer.success) <= MaxSchedules + 1
        /\ req' = [op |-> "import", role |-> role, body |-> arr]
        /\ response' = answer
        /\ schedules' = schedules \cup answer.inserted
        /\ nextId' = nextId + Cardinality(answer.success)
        /\ UNCHANGED <<trains, locations, currentDate, events, socketVars, restVars>>

\* the import button of the client
UploadFile(role, file) ==
    LET answer == handleFileUpload(role, file, trains, locations, nextId)
    IN  /\ req = NoRequest
        /\ nextId + Cardinality(answer.success) <= MaxSchedules + 1
        /\ req' = [op |-> "upload", role |-> role, body |-> file]
        /\ response' = answer
        /\ schedules' = schedules \cup answer.inserted
        /\ nextId' = nextId + Cardinality(answer.success)
        /\ UNCHANGED <<trains, locations, currentDate, events, socketVars, restVars>>

\* GET /api/schedules/export
GetExport(role) ==
    /\ req = NoRequest
    /\ req' = [op |-> "export", role |-> role, body |-> <<>>]
    /\ response' = exportSchedules(role, schedules, trains, locations)
    /\ UNCHANGED <<trains, locations, schedules, nextId, currentDate, events, socketVars, restVars>>

\* The answer has been delivered; the server waits for the next request.
EndRequest ==
    /\ req # NoRequest
    /\ req' = NoRequest
    /\ response' = NoAnswer
    /\ UNCHANGED <<trains, locations, schedules, nextId, currentDate, events, socketVars, restVars>>

Next ==
    \/ \E data \in CreateBodies : PostSchedule("anonymous", data)
    \/ \E data \in FormBodies : SubmitForm("anonymous", data)
    \/ \E r \in ImportRequests : PostImport(r[1], r[2])
    \/ \E r \in ImportRequests : UploadFile(r[1], r[2])
    \/ \E role \in Roles : GetExport(role)
    \/ EndRequest

Spec == Init /\ [][Next]_vars

(***************************************************************************)
(* The calendar over a table filled by POST /api/schedules.                 *)
(***************************************************************************)
\* the table after the bodies f[1..n] have been posted in turn: each row is the
\* one createSchedule inserts (a body it refuses leaves no row)
createdRows(f, n) ==
    UNION {createSchedule(f[i], InitTrains, InitLocations, i).inserted : i \in 1..n}

TimelineInit ==
    /\ trains = InitTrains
    /\ locations = InitLocations
    /\ \E n \in 0..MaxSchedules : \E f \in [1..n -> TimelineBodies] :
          /\ schedules = createdRows(f, n)
          /\ nextId = n + 1
    /\ req = NoRequest
    /\ response = NoAnswer
    /\ currentDate = NULL
    /\ events = {}
    /\ timeChecks = FALSE
    /\ inbox = <<>>
    /\ outbox = <<>>
    /\ cache = {}
    /\ log = ""
    /\ RestInit

\* Dashboard renders TimelineView with the rows GET /api/schedules returns; the
\* clock of the browser does not run backwards.
RenderTimeline(now) ==
    /\ now >= currentDate
    /\ currentDate' = now
    /\ events' = TimelineView(schedules, now)
    /\ UNCHANGED <<trains, locations, schedules, nextId, req, response, socketVars, restVars>>

TimelineNext == \E now \in RenderTimes : RenderTimeline(now)

SpecTimeline == TimelineInit /\ [][TimelineNext]_vars

(***************************************************************************)
(* The train controls of one dashboard, other socket.io clients, and the    *)
(* server's updateSchedule handler over a table filled by                   *)
(* POST /api/schedules.  One event is under way at a time.                  *)
(***************************************************************************)
SocketInit ==
    /\ trains = InitTrains
    /\ locations = InitLocations
    /\ \E n \in 1..MaxSchedules : \E f \in [1..n -> SocketBodies] :
          /\ schedules = createdRows(f, n)
          /\ nextId = n + 1
    /\ req = NoRequest
    /\ response = NoAnswer
    /\ currentDate = NULL
    /\ events = {}
    /\ timeChecks \in BOOLEAN
    /\ inbox = <<>>
    /\ outbox = <<>>
    /\ cache = fetchSchedules(schedules)
    /\ log = ""
    /\ RestInit

\* a socket.io client other than the dashboard emits updateSchedule
EmitUpdate(role, data) ==
    /\ req = NoRequest
    /\ inbox = <<>>
    /\ inbox' = <<[role |-> role, data |-> data, at |-> sentAt(data)]>>
    /\ UNCHANGED <<trains, locations, schedules, nextId, req, response, currentDate, events,
                   timeChecks, outbox, cache, log, restVars>>

\* a button of the train controls is clicked at the instant `now`:
\* handleUpdateSchedule calls useSocket's updateSchedule, which updates the
\* cache and emits the event
ClickButton(role, button, now) ==
    /\ req = NoRequest
    /\ inbox = <<>>
    /\ \E selected \in selectable(cache) :
          /\ ~buttonDisabled(button, selected)
          /\ cache' = optimisticUpdate(cache, buttonEvent(button, selected, now))
          /\ inbox' = <<[role |-> role, data |-> buttonEvent(button, selected, now),
                         at |-> now]>>
    /\ UNCHANGED <<trains, locations, schedules, nextId, req, response, currentDate, events,
                   timeChecks, outbox, log, restVars>>

\* the server's handler runs on the event; it answers nothing to the sender
HandleUpdate(up) ==
    /\ inbox # <<>>
    /\ outbox = <<>>
    /\ LET event == inbox[1]
           result == updateSchedule(event.data, schedules, trains, locations, timeChecks, up)
       IN  /\ req' = [op |-> "updateSchedule", role |-> event.role, body |-> <<event.data>>,
                      at |-> event.at]
           /\ schedules' = result.rows
           /\ outbox' = result.emitted
           /\ log' = result.log
    /\ inbox' = <<>>
    /\ UNCHANGED <<trains, locations, nextId, response, currentDate, events, timeChecks, cache, restVars>>

\* the dashboard receives scheduleUpdated
ReceiveScheduleUpdated ==
    /\ outbox # <<>>
    /\ cache' = scheduleUpdated(cache, outbox[1])
    /\ outbox' = Tail(outbox)
    /\ UNCHANGED <<trains, locations, schedules, nextId, req, response, currentDate, events,
                   timeChecks, inbox, log, restVars>>

\* useQuery fetches the schedules again (the window regains focus, the
\* dashboard is mounted again)
Refetch ==
    /\ cache # fetchSchedules(schedules)
    /\ cache' = fetchSchedules(schedules)
    /\ UNCHANGED <<trains, locations, schedules, nextId, req, response, currentDate, events,
                   timeChecks, inbox, outbox, log, restVars>>

\* Events sent by any socket.io client; the dashboard only listens.
SocketNext ==
    \/ \E r \in SocketRequests : EmitUpdate(r[1], r[2])
    \/ \E up \in BOOLEAN : HandleUpdate(up)
    \/ ReceiveScheduleUpdated
    \/ Refetch
    \/ EndRequest

SpecSocket == SocketInit /\ [][SocketNext]_vars

\* Events sent by the train controls of the dashboard.
ControlsNext ==
    \/ \E role \in ClickRoles : \E button \in Buttons : \E now \in UpdateTimes :
          ClickButton(role, button, now)
    \/ \E up \in BOOLEAN : HandleUpdate(up)
    \/ ReceiveScheduleUpdated
    \/ Refetch
    \/ EndRequest

SpecControls == SocketInit /\ [][ControlsNext]_vars

(***************************************************************************)
(* Two dashboards on one server.  A handler of updateSchedule awaits its    *)
(* UPDATE and emits after it; the pool gives each statement its own         *)
(* connection, so the answers of two statements reach their handlers in     *)
(* either order.  socket.io delivers to each client in the order of the     *)
(* emits.                                                                   *)
(***************************************************************************)
ClientsInit ==
    /\ trains = InitTrains
    /\ locations = InitLocations
    /\ \E n \in 1..MaxSchedules : \E f \in [1..n -> SocketBodies] :
          /\ schedules = createdRows(f, n)
          /\ nextId = n + 1
    /\ req = NoRequest
    /\ response = NoAnswer
    /\ currentDate = NULL
    /\ events = {}
    /\ timeChecks \in BOOLEAN
    /\ inbox = <<>>
    /\ outbox = <<>>
    /\ cache = {}
    /\ log = ""
    /\ users = InitUsers
    /\ nextUserId = 2
    /\ registering = [c \in Clients |-> Idle]
    /\ nextTrainId = 4
    /\ today = 0
    /\ connection = "seeded"
    /\ call = DefaultCall
    /\ attempts = 1
    /\ waits = <<>>
    /\ caches = [c \in Clients |-> fetchSchedules(schedules)]
    /\ channels = [c \in Clients |-> <<>>]
    /\ handlers = [c \in Clients |-> NoHandler]

\* a button of the train controls of dashboard c is clicked at the instant
\* `now`: the optimistic update, then the emit
ClickControl(c, button, now) ==
    /\ handlers[c].phase = "none"
    /\ \A d \in Clients :
          Len(channels[d]) + Cardinality({e \in Clients : handlers[e].phase # "none"})
              < MaxPending
    /\ \E selected \in selectable(caches[c]) :
          /\ ~buttonDisabled(button, selected)
          /\ caches' = [caches EXCEPT ![c] = optimisticUpdate(@, buttonEvent(button, selected, now))]
          /\ handlers' = [handlers EXCEPT ![c] =
                             [phase |-> "received", data |-> buttonEvent(button, selected, now),
                              updated |-> <<>>]]
    /\ UNCHANGED <<trains, locations, schedules, nextId, req, response, currentDate, events,
                   socketVars, userVars, trainVars, connVars, channels>>

\* the handler's UPDATE runs in the database; the handler ends here when the
\* statement threw or matched no row.  The console keeps what was logged.
WriteUpdate(c, up) ==
    LET result == updateSchedule(handlers[c].data, schedules, trains, locations,
                                 timeChecks, up)
    IN  /\ handlers[c].phase = "received"
        /\ schedules' = result.rows
        /\ log' = IF result.log # "" THEN result.log ELSE log
        /\ handlers' = [handlers EXCEPT ![c] =
                           IF result.emitted = <<>> THEN NoHandler
                           ELSE [@ EXCEPT !.phase = "written", !.updated = result.emitted]]
        /\ UNCHANGED <<trains, locations, nextId, req, response, currentDate, events,
                       timeChecks, inbox, outbox, cache, userVars, trainVars, connVars,
                       caches, channels>>

\* the answer of the statement has reached the handler:
\* io.emit("scheduleUpdated", updated[0])
EmitScheduleUpdated(c) ==
    /\ handlers[c].phase = "written"
    /\ channels' = [d \in Clients |-> channels[d] \o handlers[c].updated]
    /\ handlers' = [handlers EXCEPT ![c] = NoHandler]
    /\ UNCHANGED <<trains, locations, schedules, nextId, req, response, currentDate, events,
                   socketVars, userVars, trainVars, connVars, caches>>

\* dashboard c receives the next scheduleUpdated
ReceiveBroadcast(c) ==
    /\ channels[c] # <<>>
    /\ caches' = [caches EXCEPT ![c] = scheduleUpdated(@, Head(channels[c]))]
    /\ channels' = [channels EXCEPT ![c] = Tail(@)]
    /\ UNCHANGED <<trains, locations, schedules, nextId, req, response, currentDate, events,
                   socketVars, userVars, trainVars, connVars, handlers>>

ClientsNext ==
    \/ \E c \in Clients : \E button \in Buttons : \E now \in UpdateTimes :
          ClickControl(c, button, now)
    \/ \E c \in Clients : \E up \in BOOLEAN : WriteUpdate(c, up)
    \/ \E c \in Clients : EmitScheduleUpdated(c)
    \/ \E c \in Clients : ReceiveBroadcast(c)

SpecClients == ClientsInit /\ [][ClientsNext]_vars

(***************************************************************************)
(* Administration: schedules are created and imported while an              *)
(* administrator cleans tables.                                             *)
(***************************************************************************)
\* deserializeUser: the role of the session's user as the table holds it; a
\* session whose user is gone is not authenticated
sessionRoles(usrs) == {"anonymous"} \cup {u.role : u \in usrs}

AdminInit ==
    /\ trains = InitTrains
    /\ locations = InitLocations
    /\ schedules = {}
    /\ nextId = 1
    /\ req = NoRequest
    /\ response = NoAnswer
    /\ currentDate = NULL
    /\ events = {}
    /\ timeChecks = FALSE
    /\ inbox = <<>>
    /\ outbox = <<>>
    /\ cache = {}
    /\ log = ""
    /\ users \in {InitUsers, InitUsers \cup RegisteredUsers}
    /\ nextUserId = 5
    /\ registering = [c \in Clients |-> Idle]
    /\ nextTrainId = 4
    /\ today = 0
    /\ connection = "seeded"
    /\ call = DefaultCall
    /\ attempts = 1
    /\ waits = <<>>
    /\ caches = [c \in Clients |-> {}]
    /\ channels = [c \in Clients |-> <<>>]
    /\ handlers = [c \in Clients |-> NoHandler]

\* POST /api/admin/clean-tables
CleanTables(role, body) ==
    LET out == cleanTables(role, body, schedules, trains, locations, users)
    IN  /\ req = NoRequest
        /\ req' = [op |-> "clean-tables", role |-> role, body |-> <<body>>]
        /\ response' = out.answer
        /\ schedules' = out.rows
        /\ trains' = out.trs
        /\ locations' = out.locs
        /\ users' = out.usrs
        /\ UNCHANGED <<nextId, currentDate, events, socketVars, nextUserId, registering,
                       trainVars, connVars, clientVars>>

AdminNext ==
    \/ \E data \in AdminBodies : PostSchedule("anonymous", data)
    \/ \E r \in AdminImportRequests : r[1] \in sessionRoles(users) /\ PostImport(r[1], r[2])
    \/ \E r \in CleanRequests : r[1] \in sessionRoles(users) /\ CleanTables(r[1], r[2])
    \/ EndRequest

SpecAdmin == AdminInit /\ [][AdminNext]_vars

(***************************************************************************)
(* Registration: two clients call /api/register; the awaits of one handler  *)
(* leave room for the statements of the other.                              *)
(***************************************************************************)
\* the request arrives and the handler runs up to the answer of its select
RegisterLookup(c, requester, body) ==
    /\ registering[c].phase = "idle"
    /\ registering' = [registering EXCEPT ![c] = registerLookup(requester, body, users)]
    /\ UNCHANGED <<trains, locations, schedules, nextId, req, response, currentDate, events,
                   socketVars, users, nextUserId, trainVars, connVars, clientVars>>

\* the handler resumes: insert, login and answer
RegisterInsert(c) ==
    LET out == registerInsert(registering[c], users, nextUserId)
    IN  /\ registering[c].phase = "checked"
        /\ nextUserId <= MaxUsers + 1
        /\ users' = out.usrs
        /\ nextUserId' = nextUserId + 1
        /\ registering' = [registering EXCEPT ![c] = out.request]
        /\ UNCHANGED <<trains, locations, schedules, nextId, req, response, currentDate,
                       events, socketVars, trainVars, connVars, clientVars>>

\* the answer has reached the client
RegisterEnd(c) ==
    /\ registering[c].phase = "done"
    /\ registering' = [registering EXCEPT ![c] = Idle]
    /\ UNCHANGED <<trains, locations, schedules, nextId, req, response, currentDate, events,
                   socketVars, users, nextUserId, trainVars, connVars, clientVars>>

RegisterNext ==
    \/ \E c \in Clients : \E requester \in sessionRoles(users) : \E body \in RegisterBodies :
          RegisterLookup(c, requester, body)
    \/ \E c \in Clients : RegisterInsert(c)
    \/ \E c \in Clients : RegisterEnd(c)

SpecRegister == Init /\ [][RegisterNext]_vars

(***************************************************************************)
(* Import of train types into an empty trains table, over several days.     *)
(***************************************************************************)
TrainsInit ==
    /\ trains = {}
    /\ locations = InitLocations
    /\ schedules = {}
    /\ nextId = 1
    /\ req = NoRequest
    /\ response = NoAnswer
    /\ currentDate = NULL
    /\ events = {}
    /\ timeChecks = FALSE
    /\ inbox = <<>>
    /\ outbox = <<>>
    /\ cache = {}
    /\ log = ""
    /\ users = InitUsers
    /\ nextUserId = 2
    /\ registering = [c \in Clients |-> Idle]
    /\ nextTrainId = 1
    /\ today = 0
    /\ connection = "seeded"
    /\ call = DefaultCall
    /\ attempts = 1
    /\ waits = <<>>
    /\ caches = [c \in Clients |-> {}]
    /\ channels = [c \in Clients |-> <<>>]
    /\ handlers = [c \in Clients |-> NoHandler]

\* POST /api/trains/import-types
PostImportTypes(role, arr) ==
    LET out == importTrainTypes(role, arr, trains, nextTrainId, today)
    IN  /\ req = NoRequest
        /\ nextTrainId + Cardinality(out.success) <= MaxTrains + 1
        /\ req' = [op |-> "import-types", role |-> role, body |-> arr]
        /\ response' = [status |-> out.status, error |-> out.error, issues |-> out.issues,
                        inserted |-> out.inserted, success |-> out.success,
                        failures |-> out.failures, messages |-> out.messages]
        /\ trains' = out.trs
        /\ nextTrainId' = nextTrainId + Cardinality(out.success)
        /\ UNCHANGED <<locations, schedules, nextId, currentDate, events, socketVars,
                       userVars, today, connVars, clientVars>>

\* midnight UTC passes while no request is being answered
NextDay ==
    /\ req = NoRequest
    /\ today < MaxDate
    /\ today' = today + 1
    /\ UNCHANGED <<trains, locations, schedules, nextId, req, response, currentDate, events,
                   socketVars, userVars, nextTrainId, connVars, clientVars>>

TrainsNext ==
    \/ \E role \in Roles : \E arr \in TypeFiles : PostImportTypes(role, arr)
    \/ NextDay
    \/ EndRequest

SpecTrains == TrainsInit /\ [][TrainsNext]_vars

(***************************************************************************)
(* Start-up: initializeDb opens the connection over a database left by an   *)
(* earlier run of the server, then seeds the administrator.                 *)
(***************************************************************************)
ConnectInit ==
    /\ trains = InitTrains
    /\ locations = InitLocations
    /\ schedules = {}
    /\ nextId = 1
    /\ req = NoRequest
    /\ response = NoAnswer
    /\ currentDate = NULL
    /\ events = {}
    /\ timeChecks = FALSE
    /\ inbox = <<>>
    /\ outbox = <<>>
    /\ cache = {}
    /\ log = ""
    /\ users \in SUBSET (InitUsers \cup RegisteredUsers)
    /\ nextUserId = 5
    /\ registering = [c \in Clients |-> Idle]
    /\ nextTrainId = 4
    /\ today = 0
    /\ connection = "pending"
    /\ call = DefaultCall
    /\ attempts = 0
    /\ waits = <<>>
    /\ caches = [c \in Clients |-> {}]
    /\ channels = [c \in Clients |-> <<>>]
    /\ handlers = [c \in Clients |-> NoHandler]

\* drizzle(...) and the test query: the database answers (`up`) or not
Attempt(up) ==
    /\ connection = "pending"
    /\ attempts' = attempts + 1
    /\ connection' = IF up THEN "open" ELSE afterFailure(call)
    /\ UNCHANGED <<trains, locations, schedules, nextId, req, response, currentDate, events,
                   socketVars, userVars, trainVars, call, waits, clientVars>>

\* setTimeout(resolve, delay) has fired: the function calls itself
Retry ==
    /\ connection = "waiting"
    /\ waits' = Append(waits, call.delay)
    /\ call' = retryCall(call)
    /\ connection' = "pending"
    /\ UNCHANGED <<trains, locations, schedules, nextId, req, response, currentDate, events,
                   socketVars, userVars, trainVars, attempts, clientVars>>

\* initializeDb goes on with the connection it was given
SeedInitialData ==
    LET out == seedInitialData(users, nextUserId)
    IN  /\ connection = "open"
        /\ connection' = "seeded"
        /\ users' = out.usrs
        /\ nextUserId' = out.id
        /\ UNCHANGED <<trains, locations, schedules, nextId, req, response, currentDate,
                       events, socketVars, registering, trainVars, call, attempts, waits,
                       clientVars>>

ConnectNext ==
    \/ \E up \in BOOLEAN : Attempt(up)
    \/ Retry
    \/ SeedInitialData

\* the event loop runs every continuation that is ready: a settled query, a
\* fired timer
SpecConnect == ConnectInit /\ [][ConnectNext]_vars /\ WF_vars(ConnectNext)

(***************************************************************************)
(* Properties.                                                              *)
(***************************************************************************)
Rendered == currentDate # NULL

EventIds == {e.id : e \in events}

\* the instant d lies in the schedule's effective window
InWindow(s, d) ==
    /\ s.effectiveStartDate <= d
    /\ s.effectiveEndDate = NULL \/ d <= s.effectiveEndDate

\* the weekday of the instant d, Monday = 0 ... Sunday = 6, counted from
\* 1970-01-01, a Thursday (index 3)
MondayIndex(d) == ((d \div DayTicks) + 3) % 7

RunsOnWeekday(s, d) == s.runningDays[MondayIndex(d) + 1]

\* C1 as claimed: a schedule with isCancelled = true is inactive on every
\* date, so the calendar never holds an event for it.
C1_CancelledNeverActive ==
    \A s \in schedules : s.isCancelled => s.id \notin EventIds

\* C1 as amended: cancellation does not enter the active-on-date decision.  A
\* cancelled schedule is active exactly when the instant is inside its
\* effective window and runningDays is true for the weekday; its event
\* carries isCancelled = true and is coloured as cancelled.
C1_CancelledFilteredLikeOthers ==
    Rendered =>
        \A s \in schedules : s.isCancelled =>
            /\ s.id \in EventIds <=> InWindow(s, currentDate) /\ RunsOnWeekday(s, currentDate)
            /\ \A e \in events : e.id = s.id =>
                  e.isCancelled /\ eventStyleGetter(e) = "#ef4444"

C1_Witness ==
    Rendered /\ \E s \in schedules : s.isCancelled /\ s.id \in EventIds

\* C2: a schedule is inactive at every instant before its effectiveStartDate
\* and, when effectiveEndDate is set, at every instant after it.
C2_InactiveOutsideWindow ==
    Rendered =>
        \A s \in schedules :
            (\/ currentDate < s.effectiveStartDate
             \/ s.effectiveEndDate # NULL /\ currentDate > s.effectiveEndDate)
                => s.id \notin EventIds

C2_Witness ==
    /\ Rendered
    /\ \E s \in schedules :
          /\ RunsOnWeekday(s, currentDate)
          /\ s.effectiveStartDate < s.effectiveEndDate
          /\ currentDate > s.effectiveEndDate
          /\ s.id \notin EventIds

\* C3: for a schedule that is not cancelled, at an instant inside its effective
\* window the decision is runningDays[i], i the weekday with Monday = 0.
C3_ActiveIffRunningDay ==
    Rendered =>
        \A s \in schedules :
            ~s.isCancelled /\ InWindow(s, currentDate) =>
                (s.id \in EventIds <=> RunsOnWeekday(s, currentDate))

C3_Witness ==
    /\ Rendered
    /\ \E s \in schedules :
          /\ ~s.isCancelled
          /\ s.runningDays = <<TRUE, FALSE, FALSE, FALSE, FALSE, FALSE, FALSE>>
          /\ s.id \in EventIds

\* The request being answered is a POST /api/schedules; Body is its body and
\* BodyTrains the train rows its trainId finds.
Creating == req.op = "create"
Body == req.body[1]
BodyTrains == trainRows(trains, Body.trainId)
OnSpecialTrain == \E t \in BodyTrains : t.type \in {"saloon", "ftr"}
OnOtherTrain == \E t \in BodyTrains : t.type \notin {"saloon", "ftr"}

\* an optional field of a body holds a value
Present(v) == v # NULL /\ v # 0

AttachPresent(d) ==
    Cardinality({k \in {"location", "number", "time"} :
        \/ k = "location" /\ Present(d.attachLocationId)
        \/ k = "number" /\ Present(d.attachTrainNumber)
        \/ k = "time" /\ d.attachTime # NULL})

DetachPresent(d) ==
    Cardinality({k \in {"location", "time"} :
        \/ k = "location" /\ Present(d.detachLocationId)
        \/ k = "time" /\ d.detachTime # NULL})

Between(t, d) == d.scheduledDeparture <= t /\ t <= d.scheduledArrival

\* C4: creation and import refuse a candidate whose scheduledArrival is not
\* after its scheduledDeparture, so every stored schedule has
\* scheduledArrival > scheduledDeparture.
C4_ArrivalAfterDeparture ==
    \A s \in schedules : s.scheduledArrival > s.scheduledDeparture

\* C5: POST /api/schedules answers 400 and inserts nothing when the train is
\* neither saloon nor ftr and one of the five attach/detach fields is given.
C5_OtherTrainOperationsRejected ==
    Creating /\ OnOtherTrain /\ AttachPresent(Body) + DetachPresent(Body) > 0
        => response.status = 400 /\ response.inserted = {}

\* C6: for a saloon or ftr train, a body with one or two of the three attach
\* fields is answered 400 and nothing is inserted; with all three or none the
\* attach rule does not refuse it, and a body with all three, an existing
\* attach location, an attach time in range and no detach is inserted.
C6_AttachAllOrNothing ==
    Creating /\ OnSpecialTrain =>
        /\ AttachPresent(Body) \in {1, 2} =>
              response.status = 400 /\ response.inserted = {}
        /\ AttachPresent(Body) \in {0, 3} =>
              response.error # "Invalid attach configuration"
        /\ (/\ AttachPresent(Body) = 3
            /\ Body.attachLocationId \in locations
            /\ Between(Body.attachTime, Body)
            /\ DetachPresent(Body) = 0
            /\ {Body.departureLocationId, Body.arrivalLocationId} \subseteq locations)
              => response.status = 200 /\ response.inserted # {}

C6_Witness ==
    /\ Creating
    /\ \E t \in BodyTrains : t.type = "ftr"
    /\ Present(Body.attachLocationId)
    /\ ~Present(Body.attachTrainNumber)
    /\ Body.attachTime # NULL
    /\ response.status = 400
    /\ response.error = "Invalid attach configuration"

\* C7: for a saloon or ftr train, a body with exactly one of detachLocationId
\* and detachTime is refused and nothing is inserted (with 400 when its attach
\* part is absent); with both or neither the detach rule does not refuse it,
\* and a body with both, an existing detach location, a detach time in range
\* and no attach is inserted.
C7_DetachAllOrNothing ==
    Creating /\ OnSpecialTrain =>
        /\ DetachPresent(Body) = 1 =>
              /\ response.status # 200 /\ response.inserted = {}
              /\ AttachPresent(Body) = 0 => response.status = 400
        /\ DetachPresent(Body) \in {0, 2} =>
              response.error # "Invalid detach configuration"
        /\ (/\ DetachPresent(Body) = 2
            /\ Body.detachLocationId \in locations
            /\ Between(Body.detachTime, Body)
            /\ AttachPresent(Body) = 0
            /\ {Body.departureLocationId, Body.arrivalLocationId} \subseteq locations)
              => response.status = 200 /\ response.inserted # {}

C7_Witness ==
    /\ Creating
    /\ OnSpecialTrain
    /\ ~Present(Body.detachLocationId)
    /\ Body.detachTime # NULL
    /\ Between(Body.detachTime, Body)
    /\ response.status = 400
    /\ response.error = "Invalid detach configuration"

\* A saloon body is fully specified: all three attach fields on an existing
\* location, detach absent or whole on an existing location, departure and
\* arrival locations on file.
FullySpecified(d) ==
    /\ \E t \in trainRows(trains, d.trainId) : t.type = "saloon"
    /\ AttachPresent(d) = 3
    /\ d.attachLocationId \in locations
    /\ DetachPresent(d) \in {0, 2}
    /\ DetachPresent(d) = 2 => d.detachLocationId \in locations
    /\ {d.departureLocationId, d.arrivalLocationId} \subseteq locations

C9_EffectiveEndAfterStart ==
    \A s \in schedules :
        s.effectiveEndDate # NULL => s.effectiveEndDate > s.effectiveStartDate

\* C10: creation refuses equal departure and arrival locations; no stored
\* schedule has the same departure and arrival location.
C10_LocationsDiffer ==
    \A s \in schedules : s.departureLocationId # s.arrivalLocationId

(***************************************************************************)
(* Status updates over the WebSocket.                                       *)
(***************************************************************************)
\* the step in which the server's handler runs on the event under way
HandlingStep == inbox # <<>> /\ inbox' = <<>>

\* the event under way and the connection's role
Event == inbox[1].data
EventRole == inbox[1].role

\* the stored rows the event under way addresses
Addressed == {s \in schedules : s.id = Event.id}

TerminalStatuses == {"completed", "cancelled"}

\* C11: completed and cancelled are terminal.  No step changes the stored
\* status of a schedule that is completed or cancelled, and an update event
\* that asks for another status is answered with an invalid-transition error.
C11_TerminalStatusesStay ==
    [][\A s \in schedules : s.status \in TerminalStatuses =>
          /\ \A t \in schedules' : t.id = s.id => t.status = s.status
          /\ (HandlingStep /\ s \in Addressed /\ Event.status # s.status)
                => response'.error = "invalid transition"]_vars

\* the transition relation of the status
Transitions ==
    {<<"scheduled", "running">>,
     <<"running", "delayed">>, <<"running", "completed">>, <<"running", "cancelled">>,
     <<"delayed", "running">>, <<"delayed", "completed">>, <<"delayed", "cancelled">>}

\* C12: every change of a stored status is a pair of the transition relation,
\* and an update event that asks for any other change leaves the stored
\* schedules as they are.
C12_StatusChangesFollowTransitions ==
    [][/\ \A s \in schedules : \A t \in schedules' :
             (t.id = s.id /\ t.status # s.status) => <<s.status, t.status>> \in Transitions
       /\ (HandlingStep /\ \E s \in Addressed :
                              /\ Event.status # s.status
                              /\ <<s.status, Event.status>> \notin Transitions)
             => schedules' = schedules]_vars

\* C13: a status update that enters running leaves actualDeparture at the
\* instant of the update when it was unset and as it was when it was set; one
\* that enters completed does the same with actualArrival.
C13_TimestampsRecordedOnce ==
    [][HandlingStep =>
          \A s \in schedules : \A t \in schedules' :
              (t.id = s.id /\ t.status # s.status) =>
                  /\ t.status = "running" =>
                        t.actualDeparture = IF s.actualDeparture = NULL THEN req'.at
                                            ELSE s.actualDeparture
                  /\ t.status = "completed" =>
                        t.actualArrival = IF s.actualArrival = NULL THEN req'.at
                                          ELSE s.actualArrival]_vars

(***************************************************************************)
(* Who may write.                                                           *)
(***************************************************************************)
\* the roles the permission matrix lets create schedules and control trains
WriterRoles == {"admin", "operator"}

\* C14: a POST /api/schedules sent without a session, or with the session of
\* a viewer, inserts no schedule.
C14_CreateNeedsWriterRole ==
    (Creating /\ req.role \notin WriterRoles) => response.inserted = {}

\* C15: an updateSchedule event on a connection without the session of an
\* admin or an operator changes no stored schedule and causes no
\* scheduleUpdated broadcast.
C15_UpdateNeedsWriterRole ==
    [][(HandlingStep /\ EventRole \notin WriterRoles)
          => (schedules' = schedules /\ outbox' = <<>>)]_vars

\* the requests to the modelled endpoints wrapped in requireRole(admin)
AdminEndpoints == {"import", "export"}

Settled == inbox = <<>> /\ outbox = <<>>

\* the handler of the last event failed at the database
UpdateFailed == log # ""

\* C17: when an update sent by the client has failed at the server, the
\* optimistic change is reverted: once nothing is under way any more, the
\* cache shows the stored rows again.
C17_FailedUpdateReverted ==
    (Settled /\ UpdateFailed) => cache = fetchSchedules(schedules)

(***************************************************************************)
(* The stored schedules.                                                    *)
(***************************************************************************)
\* the schedule's train is on file and is neither saloon nor ftr
OfOtherTrain(s) ==
    \E t \in trains : t.id = s.trainId /\ t.type \notin {"saloon", "ftr"}

\* C18: a stored schedule whose train is neither saloon nor ftr has
\* attachLocationId, attachTrainNumber, attachTime, detachLocationId and
\* detachTime all empty.
C18_OtherTrainsStoreNoOperations ==
    \A s \in schedules :
        OfOtherTrain(s) =>
            /\ ~Present(s.attachLocationId)
            /\ ~Present(s.attachTrainNumber)
            /\ ~Present(s.attachTime)
            /\ ~Present(s.detachLocationId)
            /\ ~Present(s.detachTime)

\* C19: every stored schedule with attachTime set has scheduledDeparture <=
\* attachTime <= scheduledArrival, and every stored schedule with detachTime
\* set has detachTime within the same bounds.
C19_StoredTimesWithinJourney ==
    \A s \in schedules :
        /\ s.attachTime # NULL =>
              (s.scheduledDeparture <= s.attachTime /\ s.attachTime <= s.scheduledArrival)
        /\ s.detachTime # NULL =>
              (s.scheduledDeparture <= s.detachTime /\ s.detachTime <= s.scheduledArrival)

(***************************************************************************)
(* The calendar day of the effective window.                                *)
(***************************************************************************)
\* the calendar day of an instant
DayOf(d) == d \div DayTicks

StatusOnly(data) ==
    /\ data.actualDeparture = UNDEFINED
    /\ data.actualArrival = UNDEFINED
    /\ data.attachTime = UNDEFINED
    /\ data.detachTime = UNDEFINED

\* C25: an updateSchedule event that mentions none of actualDeparture,
\* actualArrival, attachTime and detachTime leaves the stored values of these
\* four fields as they were.
C25_StatusOnlyKeepsTimestamps ==
    [][(HandlingStep /\ StatusOnly(Event)) =>
          \A s \in schedules : \A t \in schedules' :
              t.id = s.id =>
                  /\ t.actualDeparture = s.actualDeparture
                  /\ t.actualArrival = s.actualArrival
                  /\ t.attachTime = s.attachTime
                  /\ t.detachTime = s.detachTime]_vars


\* a stored schedule whose train, departure and arrival location and, when
\* set, attach and detach location are all on file
RefersToExistingRows(s) ==
    /\ \E t \in trains : t.id = s.trainId
    /\ s.departureLocationId \in locations
    /\ s.arrivalLocationId \in locations
    /\ s.attachLocationId # NULL => s.attachLocationId \in locations
    /\ s.detachLocationId # NULL => s.detachLocationId \in locations

MissingTrain(d) == \A t \in trains : t.id # d.trainId
MissingAttachLocation(d) == Present(d.attachLocationId) /\ d.attachLocationId \notin locations
MissingDetachLocation(d) == Present(d.detachLocationId) /\ d.detachLocationId \notin locations
NamesMissingRow(d) == MissingTrain(d) \/ MissingAttachLocation(d) \/ MissingDetachLocation(d)

\* C22 as stated: every stored schedule refers to existing rows, and a create
\* request naming a missing train or attach/detach location is answered 404
\* and inserts nothing.
C22_MissingReferenceAnsweredNotFound ==
    /\ \A s \in schedules : RefersToExistingRows(s)
    /\ (Creating /\ NamesMissingRow(Body)) =>
          (response.status = 404 /\ response.inserted = {})

\* C22: after any sequence of creations, imports and clean-tables calls every
\* stored schedule refers to existing rows; a create request naming a missing
\* train or a missing attach/detach location is refused with 400 or 404 and
\* inserts nothing, the answer being 404 when the body passes validation and
\* the train is missing, or the train is saloon/ftr and a complete attach, or
\* without an attach a complete detach, names the missing location.
C22_ReferencesExist ==
    /\ \A s \in schedules : RefersToExistingRows(s)
    /\ (Creating /\ NamesMissingRow(Body)) =>
          (response.status \in {400, 404} /\ response.inserted = {})
    /\ (Creating /\ safeParse(Body) = {} /\ MissingTrain(Body)) => response.status = 404
    /\ (Creating /\ safeParse(Body) = {} /\ OnSpecialTrain /\ AttachPresent(Body) = 3
           /\ MissingAttachLocation(Body)) => response.status = 404
    /\ (Creating /\ safeParse(Body) = {} /\ OnSpecialTrain /\ AttachPresent(Body) = 0
           /\ DetachPresent(Body) = 2 /\ MissingDetachLocation(Body)) => response.status = 404

\* the locations were cleaned, and a create naming one of them for its attach
\* is answered not-found
C22_Witness ==
    /\ Creating /\ locations = {} /\ Body.attachLocationId = 1
    /\ response.status = 404 /\ response.error = "Invalid attach location"
    /\ schedules = {}

\* the insert of client c's registration happens in this step
Inserting(c) == registering[c].phase = "checked" /\ registering'[c].phase = "done"

\* C23: every user that /api/register stores for a requester who is not an
\* authenticated admin has role viewer, whatever role the body asked for; no
\* request of such a requester waits to insert another role.
C23_OnlyAdminGrantsRoles ==
    [][\A c \in Clients :
          /\ (Inserting(c) /\ registering[c].requester # "admin") =>
                \A u \in users' \ users : u.role = "viewer"
          /\ (registering'[c].phase = "checked" /\ registering'[c].requester # "admin") =>
                registering'[c].role = "viewer"]_vars

\* a requester without a session asked for role admin and was registered as
\* a viewer
C23_Witness ==
    \E c \in Clients :
        /\ registering[c].phase = "done" /\ registering[c].status = 200
        /\ registering[c].requester = "anonymous"
        /\ "role" \in DOMAIN registering[c].body /\ registering[c].body.role = "admin"
        /\ \E u \in users : u.username = registering[c].body.username /\ u.role = "viewer"

\* the registration of client c has been answered with `status`
Answered(c, status) == registering[c].phase = "done" /\ registering[c].status = status

\* C29: no two stored users share a username, and of two registrations of
\* one username at most one is answered with success, also when both passed
\* the existence check before either inserted.
C29_UsernamesStayUnique ==
    /\ \A u \in users : \A v \in users : u.username = v.username => u = v
    /\ \A c \in Clients : \A d \in Clients \ {c} :
          (Answered(c, 200) /\ Answered(d, 200)) =>
              registering[c].body.username # registering[d].body.username

\* both requests passed the existence check; the first insert succeeded, the
\* second was refused by the unique constraint
C29_Witness ==
    /\ Answered(1, 200) /\ Answered(2, 500)
    /\ registering[1].body.username = registering[2].body.username
    /\ Cardinality({u \in users : u.username = registering[1].body.username}) = 1

\* a clean-tables call is answered in this step
Cleaning == req.op = "none" /\ req'.op = "clean-tables"

\* the body of that call names table t
Listed(t) == \E i \in 1..Len(req'.body[1].tables) : req'.body[1].tables[i] = t

\* some stored schedule refers to a train (to a location) on file
TrainReferenced == \E s \in schedules : \E t \in trains : s.trainId = t.id
LocationReferenced ==
    \E s \in schedules :
        {s.departureLocationId, s.arrivalLocationId, s.attachLocationId,
         s.detachLocationId} \cap locations # {}

\* C27: a clean-tables call that fails leaves the four tables as they were;
\* with preserveReferences = true the trains (the locations) are emptied only
\* when no schedule refers to one, the schedules being emptied first when
\* they are listed, wherever in the list: an administrator's valid call that
\* lists the schedules succeeds and empties every table it lists.
C27_CleanTablesAtomic ==
    [][Cleaning =>
          /\ response'.status # 200 =>
                /\ schedules' = schedules /\ trains' = trains
                /\ locations' = locations /\ users' = users
          /\ (preserveReferences(req'.body[1]) /\ trains' # trains) =>
                (trains' = {} /\ (Listed("schedules") \/ ~TrainReferenced))
          /\ (preserveReferences(req'.body[1]) /\ locations' # locations) =>
                (locations' = {} /\ (Listed("schedules") \/ ~LocationReferenced))
          /\ (req'.role = "admin" /\ tableSchemaParses(req'.body[1]) /\ Listed("schedules")) =>
                /\ response'.status = 200 /\ schedules' = {}
                /\ Listed("trains") => trains' = {}
                /\ Listed("locations") => locations' = {}]_vars

\* a call listing the users, then the trains, failed on the trains in use:
\* the users other than administrators are still on file
C27_Witness ==
    /\ req.op = "clean-tables" /\ response.status = 500
    /\ req.body[1].tables = <<"users", "trains">>
    /\ response.issues = {"Cannot clean trains table while preserving references"}
    /\ schedules # {} /\ \E u \in users : u.role # "admin"

\* an administrator's call that passes the schema, with preserveAdmin = true
Preserving ==
    /\ Cleaning /\ req'.role = "admin" /\ tableSchemaParses(req'.body[1])
    /\ preserveAdmin(req'.body[1])

Admins(usrs) == {u \in usrs : u.role = "admin"}

\* C28 as stated: a call with preserveAdmin = true leaves the set of admin
\* users as it was and removes every other user when 'users' is listed.
C28_NonAdminsAlwaysRemoved ==
    [][Preserving =>
          /\ Admins(users') = Admins(users)
          /\ Listed("users") => users' = Admins(users)]_vars

\* C28: a call with preserveAdmin = true leaves the set of admin users as it
\* was; when it succeeds and 'users' is listed every other user is removed,
\* and when it fails the users table is unchanged.
C28_AdminsPreserved ==
    [][Preserving =>
          /\ Admins(users') = Admins(users)
          /\ (response'.status = 200 /\ Listed("users")) => users' = Admins(users)
          /\ response'.status # 200 => users' = users]_vars

\* a call that left preserveAdmin to its default has cleaned the users: the
\* two administrators are all that is on file
C28_Witness ==
    /\ req.op = "clean-tables" /\ response.status = 200
    /\ "preserveAdmin" \notin DOMAIN req.body[1]
    /\ \E i \in 1..Len(req.body[1].tables) : req.body[1].tables[i] = "users"
    /\ {u.id : u \in users} = {1, 4} /\ users = Admins(users)

\* createDbConnection has returned the connection or thrown
Connected == connection \in {"open", "seeded"}
Returned == Connected \/ connection = "error"

ImportingTypes == req.op = "none" /\ req'.op = "import-types" /\ response'.status = 200

\* the trains of one type numbered on one day
SameTypeAndDay(tbl, type, day) ==
    {t \in tbl : t.type = type /\ t.trainNumber.date = day}

\* how many trains of the type of entry i have been created today when the
\* loop reaches entry i: those on file and those of the entries before it
CreatedBefore(arr, i) ==
    Cardinality(SameTypeAndDay(trains, arr[i].type, today))
        + Cardinality({j \in 1..(i - 1) : arr[j].type = arr[i].type})

\* C30: the train numbers stored are unique; the k-th train of a type
\* created on a day carries the first three letters of the type in upper
\* case, that day and the sequence k-1, which is at most 2; an entry reached
\* when three trains of its type exist that day goes to failedImports with
\* 'Failed to generate unique train number after 3 attempts', and every other
\* entry of the request, before or after it, is created with its number.
C30_TrainNumbersInSequence ==
    /\ [](/\ \A t \in trains : \A u \in trains : t.trainNumber = u.trainNumber => t = u
          /\ \A t \in trains :
                /\ t.trainNumber.prefix = SubSeq(upperCase(t.type), 1, 3)
                /\ t.trainNumber.sequence \in 0..2
                /\ t.trainNumber.sequence =
                      Cardinality({u \in SameTypeAndDay(trains, t.type, t.trainNumber.date) :
                                      u.id < t.id}))
    /\ [][ImportingTypes =>
             \A i \in 1..Len(req'.body) :
                 IF CreatedBefore(req'.body, i) >= 3
                 THEN /\ i \in response'.failures
                      /\ <<i, "Failed to generate unique train number after 3 attempts">>
                            \in response'.messages
                 ELSE /\ i \notin response'.failures
                      /\ \E t \in trains' \ trains :
                            /\ t.type = req'.body[i].type
                            /\ t.trainNumber =
                                  [prefix |-> SubSeq(upperCase(t.type), 1, 3), date |-> today,
                                   sequence |-> CreatedBefore(req'.body, i)]]_vars

\* three superfast trains were on file today; the import's first entry, a
\* fourth one, failed and its second entry, a suburban train, was created
C30_Witness ==
    /\ req.op = "import-types" /\ response.status = 200
    /\ req.body[1].type = "superfast" /\ response.failures = {1}
    /\ Cardinality(SameTypeAndDay(trains, "superfast", today)) = 3
    /\ \E t \in trains :
          /\ t.id \in response.success /\ t.type = "suburban"
          /\ t.trainNumber = [prefix |-> <<"S", "U", "B">>, date |-> today, sequence |-> 0]

\* every event has been handled and every broadcast delivered
Quiescent == \A c \in Clients : handlers[c].phase = "none" /\ channels[c] = <<>>

\* C26: when no update failed, no handler is running and every
\* scheduleUpdated broadcast has been delivered, the cache of each of the two
\* dashboards shows the rows as the server stores them, whatever the order
\* of the two UPDATEs and of the two broadcasts.
C26_CachesShowStoredRow ==
    (Quiescent /\ log = "") => \A c \in Clients : caches[c] = fetchSchedules(schedules)

====
